---- MODULE Spec2Model ----
(***************************************************************************)
(* The spectral NPC of src/src/entities/npc.py: behaviour state machine,   *)
(* room containment, spatial memory, local path planning and teleport      *)
(* recovery.                                                               *)
(*                                                                         *)
(* Numbers are fixed point.  Lengths are in hundredths of a world unit     *)
(* (100 = 1.0), times in milliseconds, speeds in hundredths per second,    *)
(* unit vectors and probabilities in thousandths (1000 = 1.0) and the      *)
(* awareness level in 1/3000 (3000 = 1.0), so that dt / NPC_AWARENESS_TIME *)
(* is exact.  Products that the code rounds to a float are rounded toward  *)
(* zero.  Only the horizontal plane is tracked: the NPC and its target are *)
(* taken at the same height.                                               *)
(***************************************************************************)
EXTENDS Integers, Sequences, FiniteSets, TLC

VARIABLES
    npc,        \* the fields of the NPC object (and the fades it has started)
    env,        \* what the NPC was constructed and set up with; never changes
    player_pos, \* the target's position, owned by the rest of the game
    last,       \* what the last operation did (the observations claims are about)
    ticks       \* number of update() calls so far

vars == <<npc, env, player_pos, last, ticks>>

-----------------------------------------------------------------------------
(* Program constants *)

ROOM_HALF_W == 2000
ROOM_HALF_L == 1000
NPC_RADIUS == 90
NPC_SPEED == 150
NPC_WALK_MIN == 1500
NPC_WALK_MAX == 3000
NPC_SAFE_DISTANCE == 250
NPC_TELEPORT_ATTEMPTS == 30
NPC_DETECTION_RADIUS == 2000
NPC_FLEE_THRESHOLD == 800
NPC_AWARENESS_TIME == 3000
max_history == 15
obstacle_memory_lifetime == 5000
box_check_cache_lifetime == 1000

-----------------------------------------------------------------------------
(* Arithmetic of the Vec3 and float operations the code uses *)

Abs(a) == IF a < 0 THEN -a ELSE a

Sgn(a) == IF a < 0 THEN -1 ELSE IF a > 0 THEN 1 ELSE 0

Min(a, b) == IF a < b THEN a ELSE b

Max(a, b) == IF a > b THEN a ELSE b

\* a * b / c, rounded toward zero (c > 0)
MulDiv(a, b, c) == Sgn(a) * Sgn(b) * ((Abs(a) * Abs(b)) \div c)

\* Python's int(a / c): truncation toward zero
Trunc(a, c) == Sgn(a) * (Abs(a) \div c)

RECURSIVE SqrtIter(_, _)
SqrtIter(n, x) ==
    LET y == (x + n \div x) \div 2
    IN  IF y >= x THEN x ELSE SqrtIter(n, y)

\* a first estimate: the power of two next above the root
SqrtStart(n) ==
    IF n < 65536
    THEN IF n < 256
         THEN IF n < 16 THEN (IF n < 4 THEN 2 ELSE 4)
                        ELSE (IF n < 64 THEN 8 ELSE 16)
         ELSE IF n < 4096 THEN (IF n < 1024 THEN 32 ELSE 64)
                          ELSE (IF n < 16384 THEN 128 ELSE 256)
    ELSE IF n < 16777216
         THEN IF n < 1048576 THEN (IF n < 262144 THEN 512 ELSE 1024)
                             ELSE (IF n < 4194304 THEN 2048 ELSE 4096)
         ELSE IF n < 268435456 THEN (IF n < 67108864 THEN 8192 ELSE 16384)
                               ELSE (IF n < 1073741824 THEN 32768 ELSE 46341)

\* floor of math.sqrt
ISqrt(n) == IF n <= 0 THEN 0 ELSE SqrtIter(n, SqrtStart(n))

VAdd(a, b) == <<a[1] + b[1], a[2] + b[2]>>

VSub(a, b) == <<a[1] - b[1], a[2] - b[2]>>

VScale(v, num, den) == <<MulDiv(v[1], num, den), MulDiv(v[2], num, den)>>

LengthSquared(v) == v[1] * v[1] + v[2] * v[2]

Length(v) == ISqrt(LengthSquared(v))

Dist(a, b) == Length(VSub(a, b))

\* Vec3.normalize(): a unit vector in thousandths; the zero vector stays zero
Normalized(v) ==
    LET len == Length(v)
    IN  IF len = 0 THEN <<0, 0>> ELSE VScale(v, 1000, len)

ClampTo(a, lo, hi) == Min(Max(a, lo), hi)

\* half * fraction, the fraction in hundredths (half_w * 0.45, half_w * 0.6, ...)
SafeHalf(half, pct) == (half * pct) \div 100

\* (cos, sin) of range(0, 360, 45), in thousandths
Directions ==
    << <<1000, 0>>, <<707, 707>>, <<0, 1000>>, <<-707, 707>>,
       <<-1000, 0>>, <<-707, -707>>, <<0, -1000>>, <<707, -707>> >>

\* a dict with one key set
Put(f, k, v) == [j \in (DOMAIN f) \cup {k} |-> IF j = k THEN v ELSE f[j]]

EmptyMap == [j \in {} |-> 0]

-----------------------------------------------------------------------------
(* OcclusionQuery *)

\* footprint of one static box, inflated by the NPC's radius
InBox(b, x, y) ==
    LET hx == b.sx \div 2 + NPC_RADIUS
        hy == b.sy \div 2 + NPC_RADIUS
    IN  /\ b.x - hx <= x /\ x <= b.x + hx
        /\ b.y - hy <= y /\ y <= b.y + hy

\* the scan of self._static_objects, without the cache
BoxScan(boxes, x, y) == \E i \in 1..Len(boxes) : InBox(boxes[i], x, y)

\* (int(x * 2) / 2.0, int(y * 2) / 2.0), counted in half units
CacheKey(x, y) == <<Trunc(2 * x, 100), Trunc(2 * y, 100)>>

\* A cache entry keeps the time since it was written (current_time -
\* timestamp) instead of the timestamp.
_inside_any_box(s, x, y) ==
    LET key == CacheKey(x, y)
        hit == /\ key \in DOMAIN s.box_check_cache
               /\ s.box_check_cache[key].age <= box_check_cache_lifetime
        res == IF hit THEN s.box_check_cache[key].result
                      ELSE BoxScan(env.static_objects, x, y)
    IN  [r |-> res,
         s |-> IF hit THEN s
               ELSE [s EXCEPT !.box_check_cache =
                        Put(@, key, [result |-> res, age |-> 0])]]

Orient(p, q, r) ==
    Sgn((q[1] - p[1]) * (r[2] - p[2]) - (q[2] - p[2]) * (r[1] - p[1]))

SegSeg(p, q, r, t) ==
    /\ Orient(p, q, r) * Orient(p, q, t) <= 0
    /\ Orient(r, t, p) * Orient(r, t, q) <= 0
    /\ Max(Min(p[1], q[1]), Min(r[1], t[1])) <= Min(Max(p[1], q[1]), Max(r[1], t[1]))
    /\ Max(Min(p[2], q[2]), Min(r[2], t[2])) <= Min(Max(p[2], q[2]), Max(r[2], t[2]))

\* the segment meets the solid of box b
SegBox(a, c, b) ==
    LET x1 == b.x - b.sx \div 2
        x2 == b.x + b.sx \div 2
        y1 == b.y - b.sy \div 2
        y2 == b.y + b.sy \div 2
        In(p) == x1 <= p[1] /\ p[1] <= x2 /\ y1 <= p[2] /\ p[2] <= y2
    IN  \/ In(a) \/ In(c)
        \/ SegSeg(a, c, <<x1, y1>>, <<x2, y1>>)
        \/ SegSeg(a, c, <<x2, y1>>, <<x2, y2>>)
        \/ SegSeg(a, c, <<x2, y2>>, <<x1, y2>>)
        \/ SegSeg(a, c, <<x1, y2>>, <<x1, y1>>)

\* What the engine's traverser reports for a segment this frame.  The
\* scene holds more solids than the boxes (the colliders of the NPC and of
\* the player among them), so the verdict is the frame's input: every
\* segment clear, every segment hit, or exactly the segments that meet a box.
Traverse(scene, a, c) ==
    CASE scene = "clear" -> FALSE
      [] scene = "hit"   -> TRUE
      [] OTHER           -> \E i \in 1..Len(env.static_objects) :
                                SegBox(a, c, env.static_objects[i])

\* "clear", "blocked" or "raise".  Line 1629 uses the name
\* CollisionHandlerQueue, which npc.py never imports (lines 5-11 import
\* CollisionHandlerPusher and CollisionTraverser only): the call raises
\* NameError unless the host process has bound that name.
\* env.queue_bound says which of the two holds for the run.
_is_path_obstructed(scene, start_pos, end_pos) ==
    IF Dist(start_pos, end_pos) = 0 THEN "clear"
    ELSE IF ~env.queue_bound THEN "raise"
    ELSE IF Traverse(scene, start_pos, end_pos) THEN "blocked"
    ELSE "clear"

-----------------------------------------------------------------------------
(* ContainmentPolicy *)

_enforce_position_in_room(position) ==
    LET safe_half_w == SafeHalf(ROOM_HALF_W, 60)
        safe_half_l == SafeHalf(ROOM_HALF_L, 60)
    IN  <<ClampTo(position[1], -safe_half_w, safe_half_w),
          ClampTo(position[2], -safe_half_l, safe_half_l)>>

_do_teleport(s, position) ==
    LET safe_w == SafeHalf(ROOM_HALF_W, 60)
        safe_l == SafeHalf(ROOM_HALF_L, 60)
        safe_position == <<ClampTo(position[1], -safe_w, safe_w),
                           ClampTo(position[2], -safe_l, safe_l)>>
    IN  [s EXCEPT !.pos = safe_position,
                  !.transform_pos = safe_position,
                  !.transform_dirty = TRUE,
                  !.velocity = <<0, 0>>,
                  !.walk_timer = 0,
                  !.position_history = <<>>,
                  !.path_points = <<>>,
                  !.current_path_index = 0,
                  !.applied = @ + 1,
                  !.applied_pos = safe_position]

\* the i-th sample of a tape: its last entry repeats
Sample(seq, i) == seq[Min(i, Len(seq))]

\* The for loop of _teleport_away from attempt i on.  best is
\* [found, pos, d2]; n is the number of samples drawn; the loop also fills
\* the box cache.  Past the end of the tape the attempts draw its last
\* entry again: they find it in the cache and leave best as it is, so the
\* loop runs on to its last attempt without a change.
RECURSIVE TeleportLoop(_, _, _, _, _)
TeleportLoop(s, ppos, tp, i, best) ==
    IF i > NPC_TELEPORT_ATTEMPTS THEN [s |-> s, best |-> best, n |-> i - 1]
    ELSE IF i > Len(tp) THEN [s |-> s, best |-> best, n |-> NPC_TELEPORT_ATTEMPTS]
    ELSE
        LET xy  == Sample(tp, i)
            q   == _inside_any_box(s, xy[1], xy[2])
            d2  == LengthSquared(VSub(xy, ppos))
            far == ~env.has_player
        IN  IF q.r THEN TeleportLoop(q.s, ppos, tp, i + 1, best)
            ELSE IF ~far /\ d2 < NPC_SAFE_DISTANCE * NPC_SAFE_DISTANCE
                 THEN TeleportLoop(q.s, ppos, tp, i + 1, best)
            ELSE
                LET better == far \/ ~best.found \/ d2 > best.d2
                    b2 == IF better
                          THEN [found |-> TRUE, pos |-> xy, d2 |-> d2]
                          ELSE best
                IN  IF far \/ d2 > (NPC_SAFE_DISTANCE * 3) * (NPC_SAFE_DISTANCE * 3)
                    THEN [s |-> q.s, best |-> b2, n |-> i]
                    ELSE TeleportLoop(q.s, ppos, tp, i + 1, b2)

\* Some sample among the first n lies outside every box footprint and at
\* least NPC_SAFE_DISTANCE from the target (what the loop is looking for,
\* judged on the boxes themselves).
ValidSampled(ppos, tp, n) ==
    \E i \in 1..n :
        LET xy == Sample(tp, i)
        IN  /\ ~BoxScan(env.static_objects, xy[1], xy[2])
            /\ \/ ~env.has_player
               \/ LengthSquared(VSub(xy, ppos)) >= NPC_SAFE_DISTANCE * NPC_SAFE_DISTANCE

\* Lines 1828-1850: what _teleport_away does with the loop's outcome.  With
\* a halo the move is left to a fade sequence that calls _do_teleport after
\* 0.3 s.
TeleportApply(loop, ppos, rnd) ==
    LET valid == ValidSampled(ppos, rnd.tp, loop.n)
        s1    == [loop.s EXCEPT !.teleports = @ + 1]
    IN  IF loop.best.found
        THEN IF env.has_halo
             THEN [s1 EXCEPT !.fades = Append(@, [pos |-> loop.best.pos, valid |-> valid])]
             ELSE [_do_teleport(s1, loop.best.pos) EXCEPT !.applied_valid = valid]
        ELSE [_do_teleport(s1, rnd.fb) EXCEPT !.applied_valid = valid]

\* rnd.tp: the sampled (x, y); rnd.fb: the fallback offsets
_teleport_away(s, ppos, rnd) ==
    TeleportApply(TeleportLoop(s, ppos, rnd.tp, 1,
                               [found |-> FALSE, pos |-> <<0, 0>>, d2 |-> 0]),
                  ppos, rnd)

\* a tick that leaves the position as it finds it
EnforceNothing(s, ppos, rnd) == s

\* a clamp that teleports on every violation, however small
EnforceAlwaysTeleports(s, ppos, rnd) ==
    LET safe_half_w == SafeHalf(ROOM_HALF_W, 45)
        safe_half_l == SafeHalf(ROOM_HALF_L, 45)
        out_x == Abs(s.pos[1]) > safe_half_w
        out_y == Abs(s.pos[2]) > safe_half_l
        corrected_pos == <<ClampTo(s.pos[1], -safe_half_w, safe_half_w),
                           ClampTo(s.pos[2], -safe_half_l, safe_half_l)>>
        s1 == [s EXCEPT !.pos = corrected_pos,
                        !.transform_pos = corrected_pos,
                        !.transform_dirty = TRUE,
                        !.velocity = <<IF out_x THEN MulDiv(@[1], -5, 10) ELSE @[1],
                                       IF out_y THEN MulDiv(@[2], -5, 10) ELSE @[2]>>,
                        !.walk_timer = Min(@, 200)]
    IN  IF ~(out_x \/ out_y) THEN s ELSE _teleport_away(s1, ppos, rnd)

_enforce_room_boundaries(s, ppos, rnd) ==
    LET current_pos == s.pos
        safe_half_w == SafeHalf(ROOM_HALF_W, 45)
        safe_half_l == SafeHalf(ROOM_HALF_L, 45)
        out_x == Abs(current_pos[1]) > safe_half_w
        out_y == Abs(current_pos[2]) > safe_half_l
        corrected_pos == <<ClampTo(current_pos[1], -safe_half_w, safe_half_w),
                           ClampTo(current_pos[2], -safe_half_l, safe_half_l)>>
        s1 == [s EXCEPT !.pos = corrected_pos,
                        !.transform_pos = corrected_pos,
                        !.transform_dirty = TRUE,
                        !.velocity = <<IF out_x THEN MulDiv(@[1], -5, 10) ELSE @[1],
                                       IF out_y THEN MulDiv(@[2], -5, 10) ELSE @[2]>>,
                        !.walk_timer = Min(@, 200)]
        extreme_violation ==
            \/ Abs(current_pos[1]) > (safe_half_w * 11) \div 10
            \/ Abs(current_pos[2]) > (safe_half_l * 11) \div 10
    IN  IF ~(out_x \/ out_y) THEN s
        ELSE IF extreme_violation THEN _teleport_away(s1, ppos, rnd)
        ELSE s1

-----------------------------------------------------------------------------
(* SpatialMemory *)

\* a record dropped below zero instead of at zero
MemoryKeptAtZero(s, dt) ==
    [s EXCEPT !.obstacle_memory =
        [c \in {k \in DOMAIN @ : @[k] - dt >= 0} |-> @[c] - dt]]

\* an aging step that never drops a cache entry
CacheNeverPurged(s, dt) ==
    [s EXCEPT !.obstacle_memory =
        [c \in {k \in DOMAIN @ : @[k] - dt > 0} |-> @[c] - dt]]

\* obstacle lifetimes run down by dt; cache entries older than their
\* lifetime are dropped
_update_obstacle_memory(s, dt) ==
    LET om   == s.obstacle_memory
        keep == {c \in DOMAIN om : om[c] - dt > 0}
        bc   == s.box_check_cache
        live == {k \in DOMAIN bc : ~(bc[k].age > box_check_cache_lifetime)}
    IN  [s EXCEPT !.obstacle_memory = [c \in keep |-> om[c] - dt],
                  !.box_check_cache = [k \in live |-> bc[k]]]

\* globalClock.getFrameTime() moves on by the frame's dt.  s.inserted keeps,
\* for every cell ever put into the obstacle memory, the time since it was
\* put there last (counted up to twice the lifetime).
AdvanceFrameTime(s, dt) ==
    [s EXCEPT !.box_check_cache =
                  [k \in DOMAIN @ |->
                      [@[k] EXCEPT !.age = Min(@ + dt, box_check_cache_lifetime + 1)]],
              !.inserted =
                  [c \in DOMAIN @ |-> Min(@[c] + dt, 2 * obstacle_memory_lifetime)]]

Cell(p) == <<Trunc(p[1], 100), Trunc(p[2], 100)>>

_is_stuck(s) ==
    LET h == s.position_history
        n == Len(h)
    IN  IF n < 3 THEN FALSE
        ELSE Dist(s.pos, h[n]) + Dist(s.pos, h[n - 1]) + Dist(s.pos, h[n - 2])
                < (NPC_RADIUS * 8) \div 10

\* a full history that drops its second entry and keeps the oldest
PopSecond(h) ==
    IF Len(h) > max_history THEN <<Head(h)>> \o Tail(Tail(h)) ELSE h

\* if len(self._position_history) > self._max_history: pop(0)
PopOldest(h) ==
    IF Len(h) > max_history THEN Tail(h) ELSE h

_step(s, dt) ==
    LET start == s.pos
        v0 == s.velocity
        proposed_pos == VAdd(start, VScale(v0, dt, 1000))
        safe_half_w == SafeHalf(ROOM_HALF_W, 60)
        safe_half_l == SafeHalf(ROOM_HALF_L, 60)
        vx == IF /\ Abs(proposed_pos[1]) > safe_half_w
                 /\ \/ (proposed_pos[1] > 0 /\ v0[1] > 0)
                    \/ (proposed_pos[1] < 0 /\ v0[1] < 0)
              THEN MulDiv(-v0[1], 7, 10) ELSE v0[1]
        vy == IF /\ Abs(proposed_pos[2]) > safe_half_l
                 /\ \/ (proposed_pos[2] > 0 /\ v0[2] > 0)
                    \/ (proposed_pos[2] < 0 /\ v0[2] < 0)
              THEN MulDiv(-v0[2], 7, 10) ELSE v0[2]
        v1 == <<vx, vy>>
        new_pos == _enforce_position_in_room(VAdd(start, VScale(v1, dt, 1000)))
        movement == Dist(new_pos, start)
        hit_obstacle == movement * 5000 < Length(v1) * dt
        moved == LengthSquared(VSub(start, new_pos)) > 50 * 50
        h1 == IF moved THEN Append(s.position_history, new_pos)
              ELSE s.position_history
        h2 == PopOldest(h1)
    IN  [s EXCEPT !.pos = new_pos,
                  !.velocity = IF hit_obstacle THEN <<-vx, -vy>> ELSE v1,
                  !.obstacle_memory =
                      IF hit_obstacle THEN Put(@, Cell(start), obstacle_memory_lifetime)
                      ELSE @,
                  !.inserted = IF hit_obstacle THEN Put(@, Cell(start), 0) ELSE @,
                  !.walk_timer = IF hit_obstacle THEN 100 ELSE @,
                  !.transform_pos = new_pos,
                  !.transform_dirty = TRUE,
                  !.position_history = h2]

-----------------------------------------------------------------------------
(* BehaviorController *)

\* the level moved without the min/max of lines 1127 and 1131
AwarenessUnclamped(s, dt, being_watched) ==
    IF being_watched
    THEN [s EXCEPT !.player_awareness = @ + (dt * 3000) \div NPC_AWARENESS_TIME]
    ELSE [s EXCEPT !.player_awareness = @ - (dt * 3000) \div (NPC_AWARENESS_TIME \div 2)]

_update_awareness(s, dt, being_watched) ==
    IF being_watched
    THEN [s EXCEPT !.player_awareness = Min(3000, @ + (dt * 3000) \div NPC_AWARENESS_TIME)]
    ELSE [s EXCEPT !.player_awareness =
                      Max(0, @ - (dt * 3000) \div (NPC_AWARENESS_TIME \div 2))]

\* rnd.interval: random.uniform(*NPC_WALK_INTERVAL)
_change_behavior(s, new_state, rnd) ==
    IF new_state = s.behavior_state THEN s
    ELSE [s EXCEPT !.behavior_state = new_state,
                   !.state_timer = 0,
                   !.walk_timer = IF new_state = "stalk"
                                  THEN (rnd.interval * 7) \div 10 ELSE @]

\* the wander branch without its lower bound on the distance
TransitionNoSafeDistance(s, ppos, dt, rnd) ==
    IF env.has_player /\ s.behavior_state = "wander"
          /\ LengthSquared(VSub(ppos, s.pos)) < NPC_DETECTION_RADIUS * NPC_DETECTION_RADIUS
    THEN [s EXCEPT !.behavior_state = "stalk", !.state_timer = 0,
                   !.walk_timer = (rnd.interval * 7) \div 10]
    ELSE s

\* the stalk branch taking flight whatever the awareness level
TransitionFleeUnobserved(s, ppos, dt, rnd) ==
    LET d2 == LengthSquared(VSub(ppos, s.pos))
    IN  IF ~env.has_player THEN s
        ELSE IF s.behavior_state = "wander"
        THEN IF /\ d2 < NPC_DETECTION_RADIUS * NPC_DETECTION_RADIUS
                /\ d2 > NPC_SAFE_DISTANCE * NPC_SAFE_DISTANCE
             THEN _change_behavior(s, "stalk", rnd) ELSE s
        ELSE IF s.behavior_state = "stalk" /\ d2 < NPC_FLEE_THRESHOLD * NPC_FLEE_THRESHOLD
        THEN _change_behavior(s, "flee", rnd)
        ELSE s

\* a flight that its timer never ends
TransitionFleeForever(s, ppos, dt, rnd) ==
    IF env.has_player /\ s.behavior_state = "flee"
    THEN [s EXCEPT !.state_timer = @ + dt]
    ELSE s

_check_state_transition(s, ppos, dt, rnd) ==
    LET d2 == LengthSquared(VSub(ppos, s.pos))
        R(r) == r * r
    IN  IF ~env.has_player THEN s
        ELSE IF s.behavior_state = "wander"
        THEN IF d2 < R(NPC_DETECTION_RADIUS) /\ d2 > R(NPC_SAFE_DISTANCE)
             THEN _change_behavior(s, "stalk", rnd) ELSE s
        ELSE IF s.behavior_state = "stalk"
        THEN LET s1 == IF \/ d2 < R(NPC_SAFE_DISTANCE)
                          \/ d2 > R((NPC_DETECTION_RADIUS * 15) \div 10)
                       THEN _change_behavior(s, "wander", rnd) ELSE s
             IN  IF s1.player_awareness > 2400 /\ d2 < R(NPC_FLEE_THRESHOLD)
                 THEN _change_behavior(s1, "flee", rnd) ELSE s1
        ELSE IF s.behavior_state = "flee"
        THEN LET s1 == [s EXCEPT !.state_timer = @ + dt]
             IN  IF s1.state_timer > 5000 \/ d2 > R(NPC_DETECTION_RADIUS)
                 THEN _change_behavior(s1, "wander", rnd) ELSE s1
        ELSE s

\* "yes", "no" or "raise"; facing: the camera's forward vector is within
\* 30 degrees of the direction to the NPC (dot product > 0.866)
_is_player_looking_at_me(s, ppos, scene, facing) ==
    IF ~env.has_player THEN "no"
    ELSE IF LengthSquared(VSub(ppos, s.pos)) > NPC_DETECTION_RADIUS * NPC_DETECTION_RADIUS
    THEN "no"
    ELSE IF ~env.has_camera THEN "no"
    ELSE LET los == _is_path_obstructed(scene, ppos, s.pos)
         IN  IF los = "raise" THEN "raise"
             ELSE IF los = "blocked" THEN "no"
             ELSE IF Dist(ppos, s.pos) = 0 THEN "no"
             ELSE IF facing THEN "yes" ELSE "no"

-----------------------------------------------------------------------------
(* Direction scoring *)

\* repulsion cost of a test position, in thousandths: 10 / (dist + 0.1)
\* for every history point nearer than 2.0
RECURSIVE HistoryCost(_, _, _)
HistoryCost(h, i, test_pos) ==
    IF i > Len(h) THEN 0
    ELSE LET d == Dist(h[i], test_pos)
         IN  (IF d < 200 THEN 1000000 \div (d + 10) ELSE 0)
                 + HistoryCost(h, i + 1, test_pos)

\* The for loop over range(0, 360, 45) from the k-th direction on; acc is
\* possible_directions.  The loop also fills the box cache.
RECURSIVE DirectionLoop(_, _, _)
DirectionLoop(s, k, acc) ==
    IF k > Len(Directions) THEN [s |-> s, possible_directions |-> acc]
    ELSE
        LET direction == Directions[k]
            test_pos == VAdd(s.pos, VScale(direction, NPC_RADIUS * 2, 1000))
            outside == \/ Abs(test_pos[1]) >= SafeHalf(ROOM_HALF_W, 70)
                       \/ Abs(test_pos[2]) >= SafeHalf(ROOM_HALF_L, 70)
            q == _inside_any_box(s, test_pos[1], test_pos[2])
        IN  IF outside THEN DirectionLoop(s, k + 1, acc)
            ELSE IF q.r THEN DirectionLoop(q.s, k + 1, acc)
            ELSE IF Cell(test_pos) \in DOMAIN s.obstacle_memory
                 THEN DirectionLoop(q.s, k + 1, acc)
            ELSE DirectionLoop(q.s, k + 1,
                     Append(acc, [direction |-> direction,
                                  cost |-> HistoryCost(s.position_history, 1, test_pos)]))

\* index of the first entry of lowest cost
RECURSIVE BestIndex(_, _, _)
BestIndex(acc, i, b) ==
    IF i > Len(acc) THEN b
    ELSE BestIndex(acc, i + 1, IF acc[i].cost < acc[b].cost THEN i ELSE b)

\* a choice that takes the last survivor instead of the cheapest
ChooseLastSurvivor(loop, ppos, rnd) ==
    LET pd == loop.possible_directions
    IN  IF pd = <<>> THEN loop.s
        ELSE [loop.s EXCEPT !.velocity = VScale(pd[Len(pd)].direction, NPC_SPEED, 1000),
                            !.walk_timer = rnd.interval]

\* a fallback that takes any direction instead of the one to the centre
ChooseAnyWhenBlocked(loop, ppos, rnd) ==
    IF loop.possible_directions = <<>> /\ rnd.roll < 300
    THEN _teleport_away(loop.s, ppos, rnd)
    ELSE [loop.s EXCEPT !.velocity = VScale(Directions[rnd.center_ang], NPC_SPEED, 1000),
                        !.walk_timer = rnd.interval]

\* Lines 1494-1533: what _choose_new_direction does with the directions
\* that survived.  rnd.roll: random.random(); rnd.pick: random.choice;
\* rnd.center_ang: random.uniform(0, 360), as an index into Directions;
\* rnd.interval: random.uniform(*NPC_WALK_INTERVAL)
ChooseFrom(loop, ppos, rnd) ==
    LET pd == loop.possible_directions
        s1 == loop.s
        to_center == VSub(<<0, 0>>, s1.pos)
        vel == IF pd = <<>>
               THEN IF LengthSquared(to_center) > 10
                    THEN VScale(Normalized(to_center), NPC_SPEED, 1000)
                    ELSE VScale(Directions[rnd.center_ang], NPC_SPEED, 1000)
               ELSE IF rnd.roll < 200
                    THEN VScale(pd[1 + (rnd.pick % Len(pd))].direction, NPC_SPEED, 1000)
                    ELSE VScale(pd[BestIndex(pd, 1, 1)].direction, NPC_SPEED, 1000)
        base_interval == rnd.interval
    IN  IF pd = <<>> /\ rnd.roll < 300 THEN _teleport_away(s1, ppos, rnd)
        ELSE [s1 EXCEPT !.velocity = vel,
                        !.walk_timer =
                            IF s1.behavior_state = "stalk" THEN (base_interval * 7) \div 10
                            ELSE IF s1.behavior_state = "flee" THEN (base_interval * 4) \div 10
                            ELSE base_interval]

_choose_new_direction(s, ppos, rnd) ==
    ChooseFrom(DirectionLoop(s, 1, <<>>), ppos, rnd)

-----------------------------------------------------------------------------
(* LocalPathPlanner *)

\* One sampled candidate: c.rx, c.ry is the uniform point, c.reach the
\* random.uniform(3.0, 10.0) step toward the target.
Candidate(start_pos, end_pos, c) ==
    LET room_safe_w == SafeHalf(ROOM_HALF_W, 70)
        room_safe_l == SafeHalf(ROOM_HALF_L, 70)
        direct_vector == VScale(Normalized(VSub(end_pos, start_pos)), c.reach, 1000)
        b0 == VAdd(start_pos, direct_vector)
        biased_pos == <<ClampTo(b0[1], -room_safe_w, room_safe_w),
                        ClampTo(b0[2], -room_safe_l, room_safe_l)>>
        point == VAdd(VScale(biased_pos, 7, 10), VScale(<<c.rx, c.ry>>, 3, 10))
    IN  <<ClampTo(point[1], -room_safe_w, room_safe_w),
          ClampTo(point[2], -room_safe_l, room_safe_l)>>

\* n copies of e
Repeat(e, n) == [j \in 1..n |-> e]

\* The sampling loop (range(20)) from sample i on; acc is potential_points.
\* From the last entry of the tape on, every sample is that entry: the
\* first of them fills the cache, the others get its verdict from the cache.
RECURSIVE SampleLoop(_, _, _, _, _, _)
SampleLoop(s, start_pos, end_pos, cands, i, acc) ==
    IF i > 20 THEN [s |-> s, potential_points |-> acc]
    ELSE LET point == Candidate(start_pos, end_pos, Sample(cands, i))
             q == _inside_any_box(s, point[1], point[2])
             e == [point |-> point, cost |-> LengthSquared(VSub(point, end_pos))]
         IN  IF i >= Len(cands)
             THEN [s |-> q.s,
                   potential_points |-> IF q.r THEN acc ELSE acc \o Repeat(e, 21 - i)]
             ELSE IF q.r THEN SampleLoop(q.s, start_pos, end_pos, cands, i + 1, acc)
             ELSE SampleLoop(q.s, start_pos, end_pos, cands, i + 1, Append(acc, e))

\* the place of seq[i] after a stable ascending sort by cost
Rank(seq, i) ==
    1 + Cardinality({j \in 1..Len(seq) :
                        \/ seq[j].cost < seq[i].cost
                        \/ seq[j].cost = seq[i].cost /\ j < i})

\* list.sort(key=cost): stable, ascending
SortByCost(seq) ==
    [k \in 1..Len(seq) |-> seq[CHOOSE i \in 1..Len(seq) : Rank(seq, i) = k]]

\* The greedy chaining loop from the i-th of the ten best points on.
RECURSIVE ChainLoop(_, _, _, _, _, _)
ChainLoop(scene, pts, i, current, end_pos, path_points) ==
    IF i > Min(10, Len(pts)) THEN path_points
    ELSE
        LET point == pts[i].point
        IN  IF _is_path_obstructed(scene, current, point) # "clear"
            THEN ChainLoop(scene, pts, i + 1, current, end_pos, path_points)
            ELSE IF _is_path_obstructed(scene, point, end_pos) = "clear"
                 THEN Append(Append(path_points, point), end_pos)
                 ELSE IF Len(path_points) + 1 >= 5 THEN Append(path_points, point)
                 ELSE ChainLoop(scene, pts, i + 1, point, end_pos, Append(path_points, point))

\* a chaining loop that takes every point without asking the traverser
\* whether it can be reached
RECURSIVE ChainUnchecked(_, _, _, _, _, _)
ChainUnchecked(scene, pts, i, current, end_pos, path_points) ==
    IF i > Min(10, Len(pts)) THEN path_points
    ELSE
        LET point == pts[i].point
        IN  IF _is_path_obstructed(scene, point, end_pos) = "clear"
            THEN Append(Append(path_points, point), end_pos)
            ELSE IF Len(path_points) + 1 >= 5 THEN Append(path_points, point)
            ELSE ChainUnchecked(scene, pts, i + 1, point, end_pos,
                                Append(path_points, point))

\* Lines 1730-1740: the plan that was built, or the fallback.  rnd.roll:
\* random.random()
PlanUse(s, path_points, end_pos, rnd) ==
    IF path_points # <<>>
    THEN [s |-> [s EXCEPT !.path_points = path_points], raised |-> FALSE]
    ELSE [s |-> IF rnd.roll < 300
                THEN _teleport_away([s EXCEPT !.path_points = <<end_pos>>], end_pos, rnd)
                ELSE [s EXCEPT !.path_points = <<end_pos>>],
          raised |-> FALSE]

\* a planner that chains without the reachability test
PlanAroundUnchecked(smp, start_pos, end_pos, scene, rnd) ==
    PlanUse(smp.s,
            ChainUnchecked(scene, SortByCost(smp.potential_points), 1,
                           start_pos, end_pos, <<>>),
            end_pos, rnd)

\* Lines 1707-1728: sort the sampled points and chain the ten best
PlanAround(smp, start_pos, end_pos, scene, rnd) ==
    PlanUse(smp.s,
            ChainLoop(scene, SortByCost(smp.potential_points), 1,
                      start_pos, end_pos, <<>>),
            end_pos, rnd)

\* a planner that goes around whatever the direct segment is
PlanAlwaysAround(s0, direct, end_pos, scene, rnd) ==
    IF direct = "raise" THEN [s |-> s0, raised |-> TRUE]
    ELSE PlanAround(SampleLoop(s0, s0.pos, end_pos, rnd.cands, 1, <<>>),
                    s0.pos, end_pos, scene, rnd)

\* Lines 1658-1705: s0 is the NPC with its plan cleared, direct the verdict
\* on the direct segment.  rnd.cands: the sampled candidates
PlanDirect(s0, direct, end_pos, scene, rnd) ==
    IF direct = "raise" THEN [s |-> s0, raised |-> TRUE]
    ELSE IF direct = "clear"
         THEN [s |-> [s0 EXCEPT !.path_points = <<end_pos>>], raised |-> FALSE]
    ELSE PlanAround(SampleLoop(s0, s0.pos, end_pos, rnd.cands, 1, <<>>),
                    s0.pos, end_pos, scene, rnd)

\* Returns [s, raised].
_find_path_to_player(s, ppos, scene, rnd) ==
    IF ~env.has_player THEN [s |-> s, raised |-> FALSE]
    ELSE PlanDirect([s EXCEPT !.path_points = <<>>, !.current_path_index = 0],
                    _is_path_obstructed(scene, s.pos, ppos), ppos, scene, rnd)

-----------------------------------------------------------------------------
(* Behaviours *)

\* lines 1246-1247
WanderChoose(s, ppos, rnd) ==
    IF s.walk_timer <= 0 THEN _choose_new_direction(s, ppos, rnd) ELSE s

\* lines 1249-1250
WanderStep(s, dt) ==
    IF LengthSquared(s.velocity) > 0 THEN _step(s, dt) ELSE s

\* a wanderer that stays where it is, however close
WanderStays(s, ppos, rnd) == s

\* lines 1253-1258
WanderTooClose(s, ppos, rnd) ==
    IF /\ env.has_player
       /\ LengthSquared(VSub(s.pos, ppos)) < NPC_SAFE_DISTANCE * NPC_SAFE_DISTANCE
    THEN _teleport_away(s, ppos, rnd)
    ELSE s

_update_wander_behavior(s, ppos, dt, rnd) ==
    WanderTooClose(
        WanderStep(WanderChoose([s EXCEPT !.walk_timer = @ - dt], ppos, rnd), dt),
        ppos, rnd)

\* a follower that passes a waypoint and never recomputes a plan run out
FollowNeverReplans(f, npc_pos, ppos, scene, rnd) ==
    LET s1 == f.s
        on_path == /\ s1.path_points # <<>>
                   /\ s1.current_path_index < Len(s1.path_points)
        to_target == VSub(s1.path_points[s1.current_path_index + 1], npc_pos)
    IN  IF f.raised \/ ~on_path THEN f
        ELSE IF LengthSquared(to_target) < 100 * 100
             THEN [s |-> [s1 EXCEPT !.current_path_index = @ + 1], raised |-> FALSE]
        ELSE [s |-> [s1 EXCEPT !.velocity = VScale(Normalized(to_target), NPC_SPEED, 1000)],
              raised |-> FALSE]

\* Lines 1338-1351: follow the plan in f.s.  npc_pos is the position read
\* at the top of _update_stalk_behavior: a teleport made by the planner does
\* not refresh it.
Follow(f, npc_pos, ppos, scene, rnd) ==
    LET s1 == f.s
        on_path == /\ s1.path_points # <<>>
                   /\ s1.current_path_index < Len(s1.path_points)
        to_target == VSub(s1.path_points[s1.current_path_index + 1], npc_pos)
    IN  IF f.raised \/ ~on_path THEN f
        ELSE IF LengthSquared(to_target) < 100 * 100
             THEN IF s1.current_path_index + 1 >= Len(s1.path_points)
                  THEN _find_path_to_player([s1 EXCEPT !.current_path_index = @ + 1],
                                            ppos, scene, rnd)
                  ELSE [s |-> [s1 EXCEPT !.current_path_index = @ + 1], raised |-> FALSE]
        ELSE [s |-> [s1 EXCEPT !.velocity = VScale(Normalized(to_target), NPC_SPEED, 1000)],
              raised |-> FALSE]

\* line 1335.  rnd.stalk_interval: random.uniform(1.0, 2.0)
Replanned(f, rnd) ==
    IF f.raised THEN f ELSE [f EXCEPT !.s.walk_timer = rnd.stalk_interval]

\* lines 1331-1351: the branch taken when the direct path is obstructed
FollowPath(s, npc_pos, ppos, scene, rnd) ==
    IF s.path_points = <<>> \/ s.walk_timer <= 0
    THEN Follow(Replanned(_find_path_to_player(s, ppos, scene, rnd), rnd),
                npc_pos, ppos, scene, rnd)
    ELSE Follow([s |-> s, raised |-> FALSE], npc_pos, ppos, scene, rnd)

\* line 1363, reached unless a callee raised
StepUnlessRaised(f, dt) ==
    IF f.raised THEN f ELSE [s |-> _step(f.s, dt), raised |-> FALSE]

\* Lines 1320-1363: s has its walk timer run down, direct_path_obstructed is
\* the verdict on the segment to the player.
StalkDecide(s, direct_path_obstructed, ppos, dt, scene, rnd) ==
    LET npc_pos == s.pos
        to_player == Normalized(VSub(ppos, npc_pos))
        distance == Dist(ppos, npc_pos)
        approach_speed ==
            Min(NPC_SPEED, (NPC_SPEED * 7) \div 10
                             + (distance * NPC_SPEED * 3) \div (NPC_DETECTION_RADIUS * 10))
        keep_away == LengthSquared(VSub(ppos, npc_pos)) * 4
                         < (NPC_SAFE_DISTANCE * 3) * (NPC_SAFE_DISTANCE * 3)
    IN  IF direct_path_obstructed = "raise" THEN [s |-> s, raised |-> TRUE]
        ELSE IF direct_path_obstructed = "blocked"
             THEN StepUnlessRaised(FollowPath(s, npc_pos, ppos, scene, rnd), dt)
        ELSE IF keep_away
             THEN [s |-> _step([s EXCEPT !.velocity = VScale(to_player, -NPC_SPEED, 1000)], dt),
                   raised |-> FALSE]
        ELSE [s |-> _step([s EXCEPT !.velocity = VScale(to_player, approach_speed, 1000)], dt),
              raised |-> FALSE]

\* Returns [s, raised].
_update_stalk_behavior(s, ppos, dt, scene, rnd) ==
    IF ~env.has_player THEN [s |-> s, raised |-> FALSE]
    ELSE StalkDecide([s EXCEPT !.walk_timer = @ - dt],
                     _is_path_obstructed(scene, s.pos, ppos), ppos, dt, scene, rnd)

\* (cos, sin) of the random.uniform(-30, 30) turn, in thousandths
FleeTurns == << <<1000, 0>>, <<866, 500>>, <<866, -500>> >>

\* Lines 1374-1419: the direction of flight.  rnd.angle: the index of the turn
FleeDirection(npc_pos, ppos, rnd) ==
    LET away_from_player == Normalized(VSub(npc_pos, ppos))
        flee_speed == (NPC_SPEED * 15) \div 10
        cos_a == FleeTurns[rnd.angle][1]
        sin_a == FleeTurns[rnd.angle][2]
        rotated == <<(away_from_player[1] * cos_a - away_from_player[2] * sin_a) \div 1000,
                     (away_from_player[1] * sin_a + away_from_player[2] * cos_a) \div 1000>>
    IN  Normalized(rotated)

\* lines 1397-1419: turn a direction that leads out of the 70% area
FleeAdjust(npc_pos, flee_dir) ==
    LET flee_speed == (NPC_SPEED * 15) \div 10
        predicted_pos == VAdd(npc_pos, VScale(flee_dir, flee_speed, 2000))
        out_x == Abs(predicted_pos[1]) > SafeHalf(ROOM_HALF_W, 70)
        out_y == Abs(predicted_pos[2]) > SafeHalf(ROOM_HALF_L, 70)
        flipped == <<IF out_x THEN -flee_dir[1] ELSE flee_dir[1],
                     IF out_y THEN -flee_dir[2] ELSE flee_dir[2]>>
    IN  IF ~(out_x \/ out_y) THEN flee_dir
        ELSE IF LengthSquared(flipped) > 0 THEN Normalized(flipped)
        ELSE Normalized(<<-npc_pos[1], -npc_pos[2]>>)

\* lines 1421-1436: s1 is the NPC with its flight velocity set
FleeMove(s1, npc_pos, ppos, dt, rnd) ==
    IF LengthSquared(VSub(npc_pos, ppos))
           > ((NPC_DETECTION_RADIUS * 12) \div 10) * ((NPC_DETECTION_RADIUS * 12) \div 10)
    THEN _teleport_away(s1, ppos, rnd)
    ELSE IF Cell(npc_pos) \in DOMAIN s1.obstacle_memory
         THEN _teleport_away(s1, ppos, rnd)
    ELSE _step(s1, dt)

_update_flee_behavior(s, ppos, dt, rnd) ==
    IF ~env.has_player THEN s
    ELSE FleeMove([s EXCEPT !.velocity =
                       VScale(FleeAdjust(s.pos, FleeDirection(s.pos, ppos, rnd)),
                              (NPC_SPEED * 15) \div 10, 1000)],
                  s.pos, ppos, dt, rnd)

\* a handler that leaves the plan where it is
NoticeKeepsPlan(s, ppos, rnd) ==
    IF rnd.roll < 200 THEN s ELSE _change_behavior(s, "wander", rnd)

\* rnd.roll: random.random()
_on_player_teleported(s, ppos, rnd) ==
    IF rnd.roll < 200
    THEN _teleport_away([s EXCEPT !.path_points = <<>>, !.current_path_index = 0], ppos, rnd)
    ELSE _change_behavior([s EXCEPT !.path_points = <<>>, !.current_path_index = 0],
                          "wander", rnd)

-----------------------------------------------------------------------------
(* NPC.update *)

\* Entity.update: the transform component re-applies its position to the
\* node when it is dirty
EntityUpdate(s) ==
    IF s.transform_dirty
    THEN [s EXCEPT !.pos = s.transform_pos, !.transform_dirty = FALSE]
    ELSE s

\* a blocked timer that runs on without the escape
StuckNeverEscapes(s, ppos, dt, rnd) ==
    IF LengthSquared(s.velocity) > 0 /\ _is_stuck(s)
    THEN [s EXCEPT !.blocked_timer = @ + dt]
    ELSE [s EXCEPT !.blocked_timer = 0]

\* lines 831-838 of update
StuckCheck(s, ppos, dt, rnd) ==
    IF LengthSquared(s.velocity) > 0 /\ _is_stuck(s)
    THEN IF s.blocked_timer + dt > 2000
         THEN [_teleport_away([s EXCEPT !.blocked_timer = @ + dt], ppos, rnd)
                  EXCEPT !.blocked_timer = 0]
         ELSE [s EXCEPT !.blocked_timer = @ + dt]
    ELSE [s EXCEPT !.blocked_timer = 0]

\* what one operation did
NoObs ==
    [op |-> "none", aborted |-> FALSE, dt |-> 0, from |-> "wander",
     looked |-> FALSE, watched |-> FALSE, awareness_before |-> 0,
     reached_stuck |-> FALSE, near |-> FALSE, moving |-> FALSE, blocked_before |-> 0,
     timer_before |-> 0, history_before |-> <<>>, index_before |-> 0,
     reached_check |-> FALSE, check_state |-> "wander", check_d2 |-> 0,
     check_awareness |-> 0, teleports |-> 0, applied |-> 0,
     direct |-> "none", scene |-> "none", accepted |-> 0, all_rejected |-> FALSE, roll |-> 0, at |-> <<0, 0>>]

\* A call of update in progress: the NPC so far (s), what the call did (o),
\* and whether a callee has raised, which ends the call where it stands.
Begin(s, dt) ==
    [s |-> [AdvanceFrameTime(s, dt) EXCEPT !.teleports = 0, !.applied = 0],
     o |-> [NoObs EXCEPT !.op = "update", !.dt = dt, !.from = s.behavior_state,
                         !.awareness_before = s.player_awareness,
                         !.blocked_before = s.blocked_timer,
                         !.timer_before = s.state_timer,
                         !.history_before = s.position_history,
                         !.index_before = s.current_path_index],
     raised |-> FALSE]

\* lines 803-809
Upkeep(w, ppos, dt, rnd) ==
    [w EXCEPT !.s = _update_obstacle_memory(
                        _enforce_room_boundaries(EntityUpdate(w.s), ppos, rnd), dt)]

\* lines 815-818
Look(w, ppos, dt, in) ==
    LET look == _is_player_looking_at_me(w.s, ppos, in.scene, in.facing)
    IN  IF look = "raise" THEN [w EXCEPT !.raised = TRUE]
        ELSE [w EXCEPT !.s = _update_awareness(w.s, dt, look = "yes"),
                       !.o.looked = TRUE,
                       !.o.watched = (look = "yes")]

\* the outcome of _update_stalk_behavior taken into the call
Took(w, b) == [w EXCEPT !.s = b.s, !.raised = b.raised]

\* lines 824-829
Behave(w, ppos, dt, in) ==
    IF w.raised THEN w
    ELSE IF w.s.behavior_state = "wander"
         THEN [w EXCEPT !.s = _update_wander_behavior(w.s, ppos, dt, in.rnd)]
    ELSE IF w.s.behavior_state = "stalk"
         THEN Took(w, _update_stalk_behavior(w.s, ppos, dt, in.scene, in.rnd))
    ELSE [w EXCEPT !.s = _update_flee_behavior(w.s, ppos, dt, in.rnd)]

\* lines 831-838
Stuck(w, ppos, dt, rnd) ==
    IF w.raised THEN [w EXCEPT !.o.near = _is_stuck(w.s)]
    ELSE [w EXCEPT !.s = StuckCheck(w.s, ppos, dt, rnd),
                   !.o.reached_stuck = TRUE,
                   !.o.near = _is_stuck(w.s),
                   !.o.moving = LengthSquared(w.s.velocity) > 0]

\* line 841
Transition(w, ppos, dt, rnd) ==
    IF w.raised THEN w
    ELSE [w EXCEPT !.s = _check_state_transition(w.s, ppos, dt, rnd),
                   !.o.reached_check = TRUE,
                   !.o.check_state = w.s.behavior_state,
                   !.o.check_d2 = LengthSquared(VSub(ppos, w.s.pos)),
                   !.o.check_awareness = w.s.player_awareness]

Finish(w) ==
    [s |-> w.s,
     o |-> [w.o EXCEPT !.aborted = w.raised, !.teleports = w.s.teleports,
                       !.applied = w.s.applied]]

\* One call of update(dt), stage by stage.  in.dt, in.scene, in.facing and
\* in.rnd are the frame's inputs.  The call leaves the NPC in npc and what
\* it did in last.
update(in) ==
    \E w1 \in {Upkeep(Begin(npc, in.dt), player_pos, in.dt, in.rnd)} :
    \E w2 \in {Look(w1, player_pos, in.dt, in)} :
    \E w3 \in {Behave(w2, player_pos, in.dt, in)} :
    \E w4 \in {Stuck(w3, player_pos, in.dt, in.rnd)} :
    \E w5 \in {Finish(Transition(w4, player_pos, in.dt, in.rnd))} :
        /\ npc' = w5.s
        /\ last' = w5.o

-----------------------------------------------------------------------------
(* The room, the frames and the rest of the game *)

MaxTicks == 2

\* one crate of 2 x 2 standing right of the centre
Crate == [x |-> 300, y |-> 0, sx |-> 200, sy |-> 200]

\* What the NPC was built with.  Shipped is the game as load_phase1_scene
\* assembles it: the NPC is constructed before the player exists.
Environments ==
    { [static_objects |-> <<Crate>>, has_player |-> FALSE, has_camera |-> FALSE,
       has_halo |-> TRUE, queue_bound |-> FALSE],
      [static_objects |-> <<Crate>>, has_player |-> TRUE, has_camera |-> TRUE,
       has_halo |-> TRUE, queue_bound |-> FALSE],
      [static_objects |-> <<Crate>>, has_player |-> TRUE, has_camera |-> TRUE,
       has_halo |-> TRUE, queue_bound |-> TRUE],
      [static_objects |-> <<Crate>>, has_player |-> TRUE, has_camera |-> TRUE,
       has_halo |-> FALSE, queue_bound |-> TRUE] }

\* results of _find_spawn_point: inside the 60% area, outside the crate,
\* more than twice NPC_SAFE_DISTANCE from the player's start
SpawnPoints == { <<-600, 0>>, <<900, 450>> }

PlayerStart == <<0, 0>>

\* where the player may stand: places of the room, and places next to the NPC
PlayerSpots(p) ==
    { <<0, 0>>, <<1900, 900>>, <<1000, 500>>,
      <<ClampTo(p[1] + 100, -ROOM_HALF_W, ROOM_HALF_W), p[2]>>,
      <<ClampTo(p[1] - 600, -ROOM_HALF_W, ROOM_HALF_W), p[2]>> }

\* where the collision pusher or another caller may leave the NPC's node
PushSpots == { <<950, 0>>, <<-2500, 300>> }

\* One tape per frame: the values random.uniform, random.random and
\* random.choice return in that frame.
Tape(tp, fb, interval, roll, pick) ==
    [tp |-> tp, fb |-> fb, interval |-> interval, roll |-> roll, pick |-> pick,
     center_ang |-> 1 + (pick % 8), stalk_interval |-> 1000 + (interval - 1500) \div 2,
     angle |-> 1 + (pick % 3),
     cands |-> << [rx |-> tp[1][1], ry |-> tp[1][2], reach |-> 300],
                  [rx |-> fb[1], ry |-> fb[2], reach |-> 1000] >>]

TapeA == Tape(<< <<120, 0>>, <<100, 0>> >>, <<-500, 0>>, 1500, 100, 0)

TapeB == Tape(<< <<1100, 500>> >>, <<600, -300>>, 3000, 250, 2)

TapeC == Tape(<< <<300, 0>>, <<-1200, -600>> >>, <<-400, 200>>, 2000, 900, 4)

RandomTapes == {TapeA, TapeB, TapeC}

\* One frame: its dt, what the engine's traverser sees ("clear", "hit" or
\* "boxes"), whether the camera faces the NPC, and the frame's tape.
Frame(dt, scene, facing, rnd) ==
    [dt |-> dt, scene |-> scene, facing |-> facing, rnd |-> rnd]

Frames ==
    { Frame(3000, "clear", TRUE, TapeA),
      Frame(100, "clear", TRUE, TapeB),
      Frame(1000, "boxes", FALSE, TapeC),
      Frame(100, "hit", FALSE, TapeA),
      Frame(1000, "clear", TRUE, TapeB),
      Frame(3000, "hit", FALSE, TapeC) }

NewNPC(pos, walk_timer) ==
    [pos |-> pos, transform_pos |-> pos, transform_dirty |-> TRUE,
     velocity |-> <<0, 0>>, walk_timer |-> walk_timer,
     behavior_state |-> "wander", state_timer |-> 0, player_awareness |-> 0,
     position_history |-> <<>>, obstacle_memory |-> EmptyMap, inserted |-> EmptyMap,
     box_check_cache |-> Put(EmptyMap, CacheKey(pos[1], pos[2]), [result |-> FALSE, age |-> 0]),
     path_points |-> <<>>, current_path_index |-> 0, blocked_timer |-> 0,
     fades |-> <<>>, teleports |-> 0, applied |-> 0,
     applied_pos |-> pos, applied_valid |-> FALSE,
     node_path |-> TRUE, subscribed |-> TRUE]

Init ==
    /\ env \in Environments
    /\ \E pos \in SpawnPoints : npc = NewNPC(pos, NPC_WALK_MIN)
    /\ player_pos = PlayerStart
    /\ last = NoObs
    /\ ticks = 0

\* the frame's call of npc.update(dt) (GameApp.update_systems)
Tick ==
    /\ ticks < MaxTicks
    /\ \E in \in Frames : update(in)
    /\ ticks' = ticks + 1
    /\ UNCHANGED <<env, player_pos>>

\* the collision pass moves the NPC's node between two frames
Push ==
    /\ last.op = "update"
    /\ ticks < MaxTicks
    /\ \E q \in PushSpots : npc' = [npc EXCEPT !.pos = q, !.teleports = 0, !.applied = 0]
    /\ last' = [NoObs EXCEPT !.op = "push"]
    /\ UNCHANGED <<env, player_pos, ticks>>

\* the event bus delivers on_player_teleported
PlayerTeleported ==
    /\ env.has_player
    /\ last.op \in {"update", "push"}
    /\ ticks < MaxTicks
    /\ \E rnd \in {TapeA, TapeB} :
           \E s1 \in {_on_player_teleported([npc EXCEPT !.teleports = 0, !.applied = 0],
                                             player_pos, rnd)} :
               /\ npc' = s1
               /\ last' = [NoObs EXCEPT !.op = "teleported", !.from = npc.behavior_state,
                                        !.teleports = s1.teleports, !.applied = s1.applied]
    /\ UNCHANGED <<env, player_pos, ticks>>

\* the player walks (or is put) somewhere else between two frames
MovePlayer ==
    /\ env.has_player
    /\ last.op \notin {"move", "fade"}
    /\ ticks < MaxTicks
    /\ \E p \in PlayerSpots(npc.pos) :
           /\ p # player_pos
           /\ player_pos' = p
    /\ last' = [NoObs EXCEPT !.op = "move"]
    /\ UNCHANGED <<npc, env, ticks>>

\* a fade sequence reaches its Func(self._do_teleport, best_pos); without a
\* node path self.node_path.setPos raises before anything is assigned
ApplyFade ==
    /\ npc.fades # <<>>
    /\ LET f == Head(npc.fades)
           s == [npc EXCEPT !.fades = Tail(@), !.teleports = 0, !.applied = 0]
       IN  IF npc.node_path
           THEN /\ npc' = [_do_teleport(s, f.pos) EXCEPT !.applied_valid = f.valid]
                /\ last' = [NoObs EXCEPT !.op = "fade", !.applied = 1]
           ELSE /\ npc' = s
                /\ last' = [NoObs EXCEPT !.op = "fade", !.aborted = TRUE]
    /\ UNCHANGED <<env, player_pos, ticks>>

Next == Tick \/ Push \/ PlayerTeleported \/ MovePlayer \/ ApplyFade

Spec == Init /\ [][Next]_vars

-----------------------------------------------------------------------------
(* A blocked NPC ticked at dt = 0.1 (SpecStuck) *)

MaxStuckTicks == 22

\* where the NPC stands, its last three recorded positions, and its target
StuckPoint == <<-400, 300>>

StuckTarget == <<-20, 300>>

\* an NPC that has come back to the same point three times
StuckNPC(state, velocity) ==
    [NewNPC(StuckPoint, NPC_WALK_MAX)
        EXCEPT !.behavior_state = state,
               !.velocity = velocity,
               !.position_history = <<StuckPoint, StuckPoint, StuckPoint>>]

StuckFrame == Frame(100, "clear", FALSE, TapeB)

InitStuck ==
    /\ env \in Environments
    /\ \E state \in {"wander", "stalk"} :
       \E velocity \in { <<150, 0>>, <<0, -150>>, <<-75, 0>> } :
           /\ state = "stalk" => env.has_player
           /\ npc = StuckNPC(state, velocity)
    /\ player_pos = StuckTarget
    /\ last = NoObs
    /\ ticks = 0

StuckTick ==
    /\ ticks < MaxStuckTicks
    /\ update(StuckFrame)
    /\ ticks' = ticks + 1
    /\ UNCHANGED <<env, player_pos>>

NextStuck == StuckTick \/ ApplyFade

SpecStuck == InitStuck /\ [][NextStuck]_vars

-----------------------------------------------------------------------------
(* A failed move and the ticks after it (SpecMemory) *)

MaxMemoryTicks == 7

\* a frame long enough for the step to end against the wall
LongFrame == Frame(60000, "clear", FALSE, TapeB)

MemoryFrames ==
    { Frame(1000, "clear", FALSE, TapeB), Frame(2500, "clear", FALSE, TapeC) }

MemoryTick ==
    /\ ticks < MaxMemoryTicks
    /\ \E in \in (IF ticks = 0 THEN {LongFrame} ELSE MemoryFrames) : update(in)
    /\ ticks' = ticks + 1
    /\ UNCHANGED <<env, player_pos>>

NextMemory == MemoryTick \/ ApplyFade

SpecMemory == Init /\ [][NextMemory]_vars

-----------------------------------------------------------------------------
(* The planner called on its own (SpecPlanner) *)

MaxPlans == 2

Scenes == {"clear", "hit", "boxes"}

PlannerTargets == { <<0, 0>>, <<1000, 500>>, <<900, 450>> }

\* a stalking NPC with or without a plan under way
PlannerNPC(pos, path, index) ==
    [NewNPC(pos, NPC_WALK_MIN)
        EXCEPT !.behavior_state = "stalk",
               !.path_points = path,
               !.current_path_index = index]

InitPlanner ==
    /\ env \in Environments
    /\ \E pos \in SpawnPoints :
       \E path \in { <<>>, << <<0, 0>>, <<500, 500>> >> } :
       \E index \in {0, 1} :
           /\ index <= Len(path)
           /\ npc = PlannerNPC(pos, path, index)
    /\ player_pos \in PlannerTargets
    /\ last = NoObs
    /\ ticks = 0

\* a call of _find_path_to_player
Plan ==
    /\ ticks < MaxPlans
    /\ \E scene \in Scenes :
       \E rnd \in RandomTapes :
       \E f \in {_find_path_to_player([npc EXCEPT !.teleports = 0, !.applied = 0],
                                      player_pos, scene, rnd)} :
           /\ npc' = f.s
           /\ last' = [NoObs EXCEPT
                         !.op = "plan",
                         !.direct = IF env.has_player
                                    THEN _is_path_obstructed(scene, npc.pos, player_pos)
                                    ELSE "none",
                         !.aborted = f.raised,
                         !.teleports = f.s.teleports,
                         !.applied = f.s.applied]
    /\ ticks' = ticks + 1
    /\ UNCHANGED <<env, player_pos>>

NextPlanner == Plan \/ ApplyFade

SpecPlanner == InitPlanner /\ [][NextPlanner]_vars

-----------------------------------------------------------------------------
(* Direction selection called on its own (SpecDirection) *)

MaxChoices == 2

\* the cells of the eight test positions around p, all remembered as obstacles
Surrounded(p) ==
    [c \in {Cell(VAdd(p, VScale(Directions[k], NPC_RADIUS * 2, 1000))) :
                k \in 1..Len(Directions)} |-> 3000]

DirectionNPC(pos, memory) ==
    [NewNPC(pos, 0) EXCEPT !.box_check_cache = EmptyMap, !.obstacle_memory = memory]

\* in the open (with and without a walk to and fro behind it), left of the
\* crate with an obstacle remembered to the north, in the middle of the
\* crate, hemmed in by remembered obstacles (off the centre and on it), and
\* pushed out of the room
DirectionStarts ==
    { DirectionNPC(<<-600, 0>>, EmptyMap),
      [DirectionNPC(<<-600, 0>>, EmptyMap)
          EXCEPT !.position_history =
                     << <<-440, 0>>, <<-590, 0>>, <<-740, 0>>, <<-600, 0>> >>],
      DirectionNPC(<<-60, 0>>, Put(EmptyMap, Cell(<<-60, 180>>), 3000)),
      DirectionNPC(<<300, 0>>, EmptyMap),
      DirectionNPC(<<-600, 0>>, Surrounded(<<-600, 0>>)),
      DirectionNPC(<<0, 0>>, Surrounded(<<0, 0>>)),
      DirectionNPC(<<-2500, 300>>, EmptyMap) }

InitDirection ==
    /\ env \in Environments
    /\ npc \in DirectionStarts
    /\ player_pos \in {PlayerStart, <<-500, 0>>}
    /\ last = NoObs
    /\ ticks = 0

\* a call of _choose_new_direction
Choose ==
    /\ ticks < MaxChoices
    /\ \E rnd \in RandomTapes :
       \E s1 \in {_choose_new_direction([npc EXCEPT !.teleports = 0, !.applied = 0],
                                        player_pos, rnd)} :
           /\ npc' = s1
           /\ last' = [NoObs EXCEPT
                         !.op = "choose",
                         !.all_rejected =
                             (DirectionLoop(npc, 1, <<>>).possible_directions = <<>>),
                         !.roll = rnd.roll,
                         !.at = npc.pos,
                         !.teleports = s1.teleports,
                         !.applied = s1.applied]
    /\ ticks' = ticks + 1
    /\ UNCHANGED <<env, player_pos>>

NextDirection == Choose \/ ApplyFade

SpecDirection == InitDirection /\ [][NextDirection]_vars

-----------------------------------------------------------------------------
(* An NPC in flight (SpecFlee) *)

MaxFleeTicks == 7

\* a watched NPC that has just taken flight; memory is what its obstacle
\* memory holds
FleeNPC(pos, memory) ==
    [NewNPC(pos, NPC_WALK_MIN)
        EXCEPT !.behavior_state = "flee",
               !.player_awareness = 3000,
               !.obstacle_memory = memory,
               !.inserted = [c \in DOMAIN memory |-> obstacle_memory_lifetime - memory[c]]]

\* in the open, on a cell it remembers as an obstacle, and in a far corner
FleeStarts ==
    { FleeNPC(<<-600, 0>>, EmptyMap),
      FleeNPC(<<-600, 0>>, Put(EmptyMap, Cell(<<-600, 0>>), 4000)),
      FleeNPC(<<-1200, -600>>, EmptyMap) }

FleeFrames ==
    { Frame(1000, "clear", TRUE, TapeB),
      Frame(3000, "clear", FALSE, TapeC),
      Frame(100, "clear", TRUE, TapeA) }

\* flight is entered from stalk on a watched tick, which takes a player, a
\* camera and an occlusion test that returns
InitFlee ==
    /\ env \in {e \in Environments : e.has_player /\ e.has_camera /\ e.queue_bound}
    /\ npc \in FleeStarts
    /\ player_pos \in {PlayerStart, <<1900, 900>>}
    /\ last = NoObs
    /\ ticks = 0

FleeTick ==
    /\ ticks < MaxFleeTicks
    /\ \E in \in FleeFrames : update(in)
    /\ ticks' = ticks + 1
    /\ UNCHANGED <<env, player_pos>>

NextFlee == FleeTick \/ ApplyFade

SpecFlee == InitFlee /\ [][NextFlee]_vars

-----------------------------------------------------------------------------
(* An episode under way: stalking with a plan, in flight, or wandering  *)
(* (SpecEpisode)                                                        *)

MaxEpisodeSteps == 2

EpisodeStarts ==
    { PlannerNPC(<<-600, 0>>, <<>>, 0),
      PlannerNPC(<<-600, 0>>, << <<0, 0>>, <<500, 500>> >>, 0),
      PlannerNPC(<<900, 450>>, << <<0, 0>>, <<500, 500>> >>, 1),
      PlannerNPC(<<-30, 20>>, << <<0, 0>>, <<500, 500>> >>, 0),
      PlannerNPC(<<460, 440>>, << <<0, 0>>, <<500, 500>> >>, 1),
      FleeNPC(<<-600, 0>>, EmptyMap),
      NewNPC(<<-600, 0>>, NPC_WALK_MIN) }

\* stalking takes a player; a plan takes an occlusion test that returns;
\* flight takes a watched tick
InitEpisode ==
    /\ env \in Environments
    /\ npc \in EpisodeStarts
    /\ npc.behavior_state # "wander" => env.has_player
    /\ (npc.path_points # <<>> \/ npc.behavior_state = "flee")
           => (env.has_camera /\ env.queue_bound)
    /\ player_pos \in {PlayerStart, <<-500, 0>>, <<1900, 900>>}
    /\ last = NoObs
    /\ ticks = 0

EpisodeTick ==
    /\ ticks < MaxEpisodeSteps
    /\ \E in \in Frames : update(in)
    /\ ticks' = ticks + 1
    /\ UNCHANGED <<env, player_pos>>

\* the event bus delivers on_player_teleported
Notice ==
    /\ ticks < MaxEpisodeSteps
    /\ \E rnd \in RandomTapes :
       \E s1 \in {_on_player_teleported([npc EXCEPT !.teleports = 0, !.applied = 0],
                                         player_pos, rnd)} :
           /\ npc' = s1
           /\ last' = [NoObs EXCEPT !.op = "teleported", !.from = npc.behavior_state,
                                    !.roll = rnd.roll,
                                    !.teleports = s1.teleports, !.applied = s1.applied]
    /\ ticks' = ticks + 1
    /\ UNCHANGED <<env, player_pos>>

NextEpisode == EpisodeTick \/ Notice \/ ApplyFade

SpecEpisode == InitEpisode /\ [][NextEpisode]_vars

-----------------------------------------------------------------------------
(* A long walk (SpecHistory) *)

MaxHistoryTicks == 20

\* one-second frames: every step is longer than the 0.5 that _step records
HistoryFrames ==
    { Frame(1000, "clear", FALSE, TapeC) }

HistoryTick ==
    /\ ticks < MaxHistoryTicks
    /\ \E in \in HistoryFrames : update(in)
    /\ ticks' = ticks + 1
    /\ UNCHANGED <<env, player_pos>>

NextHistory == HistoryTick \/ ApplyFade

SpecHistory == Init /\ [][NextHistory]_vars

-----------------------------------------------------------------------------
(* The planner going round the crate (SpecChain) *)

MaxChains == 2

\* Six samples, each 0.7 of a step along the direct line (reach) plus 0.3 of
\* (rx, ry): one point behind the crate, four points on the line left of
\* the crate, each farther from a target behind the crate than the one
\* before, and one point beside the line.
TapeD ==
    [TapeC EXCEPT !.cands = << [rx |-> 1050, ry |-> 0, reach |-> 1000],
                               [rx |-> 330, ry |-> 0, reach |-> 600],
                               [rx |-> 170, ry |-> 0, reach |-> 600],
                               [rx |-> 0, ry |-> 0, reach |-> 600],
                               [rx |-> -170, ry |-> 0, reach |-> 600],
                               [rx |-> -670, ry |-> 700, reach |-> 600] >>]

InitChain ==
    /\ env \in Environments
    /\ npc \in { PlannerNPC(<<-600, 0>>, <<>>, 0),
                 PlannerNPC(<<-1200, -600>>, << <<0, 0>>, <<500, 500>> >>, 1) }
    /\ player_pos \in { <<1000, 0>>, <<1000, 500>> }
    /\ last = NoObs
    /\ ticks = 0

\* A call of _find_path_to_player.  last keeps where it was called from,
\* what the traverser saw, and how many waypoints the chaining loop (lines
\* 1707-1728) took.
PlanChain ==
    /\ ticks < MaxChains
    /\ \E scene \in Scenes :
       \E rnd \in {TapeB, TapeC, TapeD} :
       \E s0 \in {[npc EXCEPT !.teleports = 0, !.applied = 0]} :
       \E f \in {_find_path_to_player(s0, player_pos, scene, rnd)} :
       \E direct \in {IF env.has_player
                      THEN _is_path_obstructed(scene, npc.pos, player_pos)
                      ELSE "none"} :
           /\ npc' = f.s
           /\ last' = [NoObs EXCEPT
                         !.op = "chain",
                         !.direct = direct,
                         !.scene = scene,
                         !.at = npc.pos,
                         !.accepted =
                             IF direct # "blocked" THEN 0
                             ELSE Len(ChainLoop(scene,
                                      SortByCost(SampleLoop(s0, npc.pos, player_pos,
                                                            rnd.cands, 1, <<>>).potential_points),
                                      1, npc.pos, player_pos, <<>>)),
                         !.aborted = f.raised,
                         !.teleports = f.s.teleports,
                         !.applied = f.s.applied]
    /\ ticks' = ticks + 1
    /\ UNCHANGED <<env, player_pos>>

NextChain == PlanChain \/ ApplyFade

SpecChain == InitChain /\ [][NextChain]_vars

-----------------------------------------------------------------------------------------------------------------------------------------------------
(* The agent is destroyed in the middle of an episode (SpecCleanup)     *)

MaxCleanupSteps == 2

\* NPC.cleanup followed by Entity.cleanup: the handler is unsubscribed, the
\* caches and memories are cleared, the node path is removed.  The fade
\* sequences started by _teleport_away are held by no attribute and are
\* not among the intervals cleanup finishes
cleanup(s) ==
    [s EXCEPT !.subscribed = FALSE,
              !.box_check_cache = EmptyMap,
              !.obstacle_memory = EmptyMap,
              !.inserted = EmptyMap,
              !.position_history = <<>>,
              !.path_points = <<>>,
              !.node_path = FALSE]

\* EventBus.publish("on_player_teleported"): the handlers still subscribed
publish(s, ppos, rnd) ==
    IF s.subscribed THEN _on_player_teleported(s, ppos, rnd) ELSE s

CleanupTick ==
    /\ npc.node_path
    /\ ticks < MaxCleanupSteps
    /\ \E in \in Frames : update(in)
    /\ ticks' = ticks + 1
    /\ UNCHANGED <<env, player_pos>>

Publish ==
    /\ ticks < MaxCleanupSteps
    /\ \E rnd \in RandomTapes :
       \E s1 \in {publish([npc EXCEPT !.teleports = 0, !.applied = 0], player_pos, rnd)} :
           /\ npc' = s1
           /\ last' = [NoObs EXCEPT !.op = IF npc.subscribed THEN "teleported"
                                                              ELSE "published",
                                    !.from = npc.behavior_state,
                                    !.roll = rnd.roll,
                                    !.teleports = s1.teleports, !.applied = s1.applied]
    /\ ticks' = ticks + 1
    /\ UNCHANGED <<env, player_pos>>

Destroy ==
    /\ npc.node_path
    /\ npc' = cleanup([npc EXCEPT !.teleports = 0, !.applied = 0])
    /\ last' = [NoObs EXCEPT !.op = "cleanup", !.from = npc.behavior_state]
    /\ UNCHANGED <<env, player_pos, ticks>>

NextCleanup == CleanupTick \/ Publish \/ Destroy \/ ApplyFade

SpecCleanup == InitEpisode /\ [][NextCleanup]_vars

-----------------------------------------------------------------------------
(* Ticks as GameApp._update_task hands them out (SpecFrameCap)          *)

MaxCapTicks == 8

\* dt = min(dt, 0.1); 0.016 is the fallback of the first frame
CapFrames ==
    { Frame(100, "clear", FALSE, TapeA),
      Frame(100, "clear", TRUE, TapeC),
      Frame(16, "clear", FALSE, TapeB) }

\* on the move six units from the player: wandering with the timer about
\* to run out, stalking, in flight
CapStarts ==
    { NewNPC(<<-600, 0>>, 100),
      [NewNPC(<<-600, 0>>, NPC_WALK_MAX) EXCEPT !.velocity = <<NPC_SPEED, 0>>],
      PlannerNPC(<<-600, 0>>, <<>>, 0),
      FleeNPC(<<-600, 0>>, EmptyMap) }

InitFrameCap ==
    /\ env \in Environments
    /\ npc \in CapStarts
    /\ npc.behavior_state # "wander" => env.has_player
    /\ npc.behavior_state = "flee" => (env.has_camera /\ env.queue_bound)
    /\ player_pos = PlayerStart
    /\ last = NoObs
    /\ ticks = 0

CapTick ==
    /\ ticks < MaxCapTicks
    /\ \E in \in CapFrames : update(in)
    /\ ticks' = ticks + 1
    /\ UNCHANGED <<env, player_pos>>

NextFrameCap == CapTick

SpecFrameCap == InitFrameCap /\ [][NextFrameCap]_vars

-----------------------------------------------------------------------------
(* The scene as GameApp assembles it (SpecShipped)                      *)

\* GameApp.__init__: self._player = None
GameApp == [player |-> "none", npc_player |-> "none"]

\* load_phase1_scene: NPC(self._show_base, self._player, ...) is built with
\* the player reference the application holds at that line; the Player is
\* created and assigned afterwards, and nothing hands it to the NPC
load_phase1_scene(game) ==
    LET built == [game EXCEPT !.npc_player = game.player]
    IN  [built EXCEPT !.player = "Player"]

\* what the NPC of that scene was built with
Shipped ==
    LET game == load_phase1_scene(GameApp)
    IN  [static_objects |-> <<Crate>>,
         has_player |-> game.npc_player # "none",
         has_camera |-> game.npc_player # "none",
         has_halo |-> TRUE,
         queue_bound |-> FALSE]

InitShipped ==
    /\ env = Shipped
    /\ \E pos \in SpawnPoints : npc = NewNPC(pos, NPC_WALK_MIN)
    /\ player_pos = PlayerStart
    /\ last = NoObs
    /\ ticks = 0

\* the player of the scene walks about, whatever the NPC was built with
PlayerWalks ==
    /\ last.op \notin {"move", "fade"}
    /\ ticks < MaxTicks
    /\ \E p \in PlayerSpots(npc.pos) :
           /\ p # player_pos
           /\ player_pos' = p
    /\ last' = [NoObs EXCEPT !.op = "move"]
    /\ UNCHANGED <<npc, env, ticks>>

NextShipped == Tick \/ Push \/ PlayerWalks \/ Notice \/ ApplyFade

SpecShipped == InitShipped /\ [][NextShipped]_vars

-----------------------------------------------------------------------------
(* Properties *)

\* squared distances the transition table compares with
Sq(r) == r * r

\* a position within the 60% area of the room
InSafeArea(p) ==
    /\ Abs(p[1]) <= SafeHalf(ROOM_HALF_W, 60)
    /\ Abs(p[2]) <= SafeHalf(ROOM_HALF_L, 60)

\* C1 - Containment: after every call of update(dt), whatever the dt, the
\* velocity held on entry and the place the node was moved to between two
\* ticks, |x| <= 0.6 * halfWidth and |y| <= 0.6 * halfLength.
C1_Containment == last.op = "update" => InSafeArea(npc.pos)

\* a call of update that ended with the NPC on the edge of the 60% area
C1_Witness ==
    /\ last.op = "update"
    /\ InSafeArea(npc.pos)
    /\ \/ Abs(npc.pos[1]) = SafeHalf(ROOM_HALF_W, 60)
       \/ Abs(npc.pos[2]) = SafeHalf(ROOM_HALF_L, 60)

\* C2 - Transition determinism: a tick whose transition check finds the NPC
\* in Stalk with the target nearer than SAFE_DIST ends in Wander, whatever
\* the observed level.
C2_TransitionDeterminism ==
    (/\ last.op = "update"
     /\ last.reached_check
     /\ last.check_state = "stalk"
     /\ last.check_d2 < Sq(NPC_SAFE_DISTANCE))
        => npc.behavior_state = "wander"

\* C3 - Teleport safety: when teleport recovery has sampled a candidate
\* outside every box footprint and at least SAFE_DIST from the target, the
\* position the NPC holds once that teleport is applied lies in the 60% area
\* and at least SAFE_DIST from the target.
C3_TeleportSafety ==
    (/\ last.op \in {"update", "fade", "teleported"}
     /\ last.applied >= 1
     /\ npc.applied_valid)
        => /\ InSafeArea(npc.applied_pos)
           /\ env.has_player =>
                  LengthSquared(VSub(npc.applied_pos, player_pos)) >= Sq(NPC_SAFE_DISTANCE)

\* C4 - Stuck escape: on every tick of dt = 0.1 whose stuck check finds
\* the sum of the distances from the NPC to its last 3 recorded positions
\* below 0.8 * NPC_RADIUS, the blocked timer goes up by dt; on the tick at
\* which it passes 2.0 a teleport recovery is triggered and the blocked
\* timer is 0 at the end of the tick.
C4_StuckEscape ==
    (/\ last.op = "update"
     /\ last.dt = 100
     /\ last.reached_stuck
     /\ last.near)
        => IF last.blocked_before + last.dt > 2000
           THEN last.teleports >= 1 /\ npc.blocked_timer = 0
           ELSE npc.blocked_timer = last.blocked_before + last.dt

\* the tick of dt = 0.1 on which the blocked timer passes 2.0
C4_Witness ==
    /\ last.op = "update"
    /\ last.dt = 100
    /\ last.reached_stuck
    /\ last.near
    /\ last.blocked_before = 2000
    /\ last.teleports >= 1
    /\ npc.blocked_timer = 0

\* C5 - Observed level: it stays within [0, 1] after every tick; a tick that
\* finds the NPC watched raises it by dt / AWARENESS_TIME, capped at 1, and a
\* tick that finds it unwatched lowers it by dt / (0.5 * AWARENESS_TIME),
\* floored at 0.
C5_ObservedLevel ==
    /\ npc.player_awareness \in 0..3000
    /\ (last.op = "update" /\ last.looked) =>
           npc.player_awareness =
               IF last.watched
               THEN Min(3000, last.awareness_before
                                  + (last.dt * 3000) \div NPC_AWARENESS_TIME)
               ELSE Max(0, last.awareness_before
                               - (last.dt * 3000) \div (NPC_AWARENESS_TIME \div 2))

\* a watched tick on which the cap at 1 acts
C5_Witness ==
    /\ last.op = "update"
    /\ last.looked
    /\ last.watched
    /\ last.awareness_before + (last.dt * 3000) \div NPC_AWARENESS_TIME > 3000
    /\ npc.player_awareness = 3000

\* C6 - Obstacle-memory decay: a record put into the obstacle memory with
\* lifetime 5.0 and not put there again is present after every tick while
\* the dt run up since then is below 5.0, and absent from the first tick on
\* at which that dt reaches 5.0.
C6_MemoryDecay ==
    \A c \in DOMAIN npc.inserted :
        c \in DOMAIN npc.obstacle_memory <=> npc.inserted[c] < obstacle_memory_lifetime

\* a record gone after the tick on which its dt reached 5.0 exactly
C6_Witness ==
    \E c \in DOMAIN npc.inserted :
        /\ npc.inserted[c] = obstacle_memory_lifetime
        /\ c \notin DOMAIN npc.obstacle_memory
        /\ last.op = "update"

\* C7 - Direct path: when the occlusion test between the NPC and its target
\* reports no obstruction at planning time, the plan is the one waypoint of
\* the target's position, the current index is 0 and no teleport is
\* triggered.
C7_DirectPath ==
    (last.op = "plan" /\ last.direct = "clear")
        => /\ npc.path_points = <<player_pos>>
           /\ npc.current_path_index = 0
           /\ last.teleports = 0
           /\ last.applied = 0
           /\ ~last.aborted

\* a planning call that found the direct segment clear
C7_Witness ==
    /\ last.op = "plan"
    /\ last.direct = "clear"
    /\ npc.pos # player_pos
    /\ npc.path_points = <<player_pos>>

\* velocity v leads from p toward (0, 0), within the rounding of the unit
\* vector
PointsToCentre(v, p) ==
    LET dot   == v[1] * (-p[1]) + v[2] * (-p[2])
        cross == v[1] * (-p[2]) - v[2] * (-p[1])
    IN  dot > 0 /\ Abs(cross) * 100 <= dot

\* C8 - Wander direction rejection, as stated: when direction selection runs
\* off the centre and all 8 candidate directions are rejected, the velocity
\* it leaves leads from the NPC's position toward (0, 0).
C8_CentreSeeking ==
    (/\ last.op = "choose"
     /\ last.all_rejected
     /\ last.at # <<0, 0>>)
        => PointsToCentre(npc.velocity, last.at)

\* C8 - Wander direction rejection, as the code has it: off the centre with
\* all 8 candidate directions rejected, a draw below 0.3 triggers a teleport
\* recovery; any other draw gives the velocity that leads from the NPC's
\* position toward (0, 0), and no teleport.
C8_CentreSeekingOrTeleport ==
    (/\ last.op = "choose"
     /\ last.all_rejected
     /\ last.at # <<0, 0>>)
        => IF last.roll < 300
           THEN last.teleports = 1
           ELSE last.teleports = 0 /\ PointsToCentre(npc.velocity, last.at)

\* all 8 directions rejected off the centre, and the centre taken
C8_Witness ==
    /\ last.op = "choose"
    /\ last.all_rejected
    /\ last.at # <<0, 0>>
    /\ last.roll >= 300
    /\ PointsToCentre(npc.velocity, last.at)

\* C9 - Wander exit: a tick that begins in Wander with a target present ends
\* in Stalk if and only if SAFE_DIST < d < DETECT_RADIUS at its transition
\* check, and in Wander otherwise; it never ends in Flee.
C9_WanderExit ==
    (/\ last.op = "update"
     /\ last.from = "wander"
     /\ env.has_player)
        => /\ npc.behavior_state \in {"wander", "stalk"}
           /\ npc.behavior_state = "stalk" <=>
                  /\ last.reached_check
                  /\ last.check_d2 > Sq(NPC_SAFE_DISTANCE)
                  /\ last.check_d2 < Sq(NPC_DETECTION_RADIUS)

\* a tick that began in Wander and ended in Stalk
C9_Witness ==
    /\ last.op = "update"
    /\ last.from = "wander"
    /\ env.has_player
    /\ last.reached_check
    /\ npc.behavior_state = "stalk"

\* C10 - Stalk exit: a tick that begins in Stalk with SAFE_DIST <= d <=
\* 1.5 * DETECT_RADIUS at its transition check ends in Flee if and only if
\* the observed level is above 0.8 and d < FLEE_THRESHOLD, and in Stalk
\* otherwise; with d > 1.5 * DETECT_RADIUS it ends in Wander.
C10_StalkExit ==
    (/\ last.op = "update"
     /\ last.from = "stalk"
     /\ last.reached_check)
        => /\ (/\ last.check_d2 >= Sq(NPC_SAFE_DISTANCE)
               /\ last.check_d2 <= Sq((NPC_DETECTION_RADIUS * 15) \div 10))
                  => npc.behavior_state =
                         IF /\ last.check_awareness > 2400
                            /\ last.check_d2 < Sq(NPC_FLEE_THRESHOLD)
                         THEN "flee" ELSE "stalk"
           /\ last.check_d2 > Sq((NPC_DETECTION_RADIUS * 15) \div 10)
                  => npc.behavior_state = "wander"

\* a tick that began in Stalk and ended in Flee
C10_Witness ==
    /\ last.op = "update"
    /\ last.from = "stalk"
    /\ last.reached_check
    /\ last.check_d2 >= Sq(NPC_SAFE_DISTANCE)
    /\ npc.behavior_state = "flee"

\* C11 - Flee is bounded: on every tick that begins in flee with a target
\* present the state timer goes up by dt, and the tick ends in wander exactly
\* when the timer then exceeds 5.0 or the distance at the transition check
\* exceeds NPC_DETECTION_RADIUS, also when the flee update teleported; so an
\* NPC in flee never holds a state timer above 5.0.
C11_FleeBounded ==
    /\ npc.behavior_state = "flee" => npc.state_timer <= 5000
    /\ (/\ last.op = "update"
        /\ last.from = "flee"
        /\ env.has_player)
           => /\ last.reached_check
              /\ last.check_state = "flee"
              /\ IF \/ last.timer_before + last.dt > 5000
                    \/ last.check_d2 > Sq(NPC_DETECTION_RADIUS)
                 THEN npc.behavior_state = "wander" /\ npc.state_timer = 0
                 ELSE /\ npc.behavior_state = "flee"
                      /\ npc.state_timer = last.timer_before + last.dt

\* a flight ended by its timer on a tick whose flee update teleported
C11_Witness ==
    /\ last.op = "update"
    /\ last.from = "flee"
    /\ last.timer_before > 0
    /\ last.timer_before + last.dt > 5000
    /\ last.check_d2 <= Sq(NPC_DETECTION_RADIUS)
    /\ last.teleports >= 1
    /\ npc.behavior_state = "wander"

\* C12 - Target-teleport notification: once _on_player_teleported has been
\* handled, in any state, the path plan is empty with index 0 and either a
\* teleport recovery was triggered or the state is wander; an NPC that was
\* in stalk or flee and did not teleport is in wander with state timer 0.
C12_TargetTeleported ==
    last.op = "teleported"
        => /\ npc.path_points = <<>>
           /\ npc.current_path_index = 0
           /\ last.teleports >= 1 \/ npc.behavior_state = "wander"
           /\ (last.from \in {"stalk", "flee"} /\ last.teleports = 0)
                  => (npc.behavior_state = "wander" /\ npc.state_timer = 0)

\* a notification that ended a flight under way, with no teleport
C12_Witness ==
    /\ last.op = "teleported"
    /\ last.from = "flee"
    /\ last.teleports = 0
    /\ ticks = 2
    /\ npc.behavior_state = "wander"
    /\ npc.state_timer = 0

\* C13 - Path plan discarded on state change: after every tick that changed
\* the behaviour state (wander to stalk, stalk to wander, stalk to flee, flee
\* to wander) the path plan is empty and the index is 0.
C13_PlanDiscarded ==
    (/\ last.op = "update"
     /\ last.reached_check
     /\ npc.behavior_state # last.from)
        => /\ npc.path_points = <<>>
           /\ npc.current_path_index = 0

\* C14 - State timer meaning: in every state the state timer is the tick
\* time run up since the last change of behaviour state: 0 after a tick that
\* changed the state, up by dt after a tick that did not.
C14_StateTimer ==
    (last.op = "update" /\ last.reached_check)
        => IF npc.behavior_state # last.from
           THEN npc.state_timer = 0
           ELSE npc.state_timer = last.timer_before + last.dt

\* no obstacle record with a lifetime <= 0 or above 5.0, no cache entry
\* older than 1.0
Purged(s) ==
    /\ \A c \in DOMAIN s.obstacle_memory :
           /\ s.obstacle_memory[c] > 0
           /\ s.obstacle_memory[c] <= obstacle_memory_lifetime
    /\ \A k \in DOMAIN s.box_check_cache :
           s.box_check_cache[k].age <= box_check_cache_lifetime

\* C15 - Memory maps are purged every tick: the aging step of a tick, run on
\* any state the NPC can be in, leaves no obstacle record with a lifetime
\* <= 0 and no cache entry older than its lifetime of 1.0; at the end of
\* every tick the same holds and every obstacle lifetime is in (0, 5.0].
C15_MemoryPurged ==
    /\ \A in \in MemoryFrames \cup {LongFrame} :
           Purged(_update_obstacle_memory(AdvanceFrameTime(npc, in.dt), in.dt))
    /\ last.op = "update" => Purged(npc)

\* a tick that dropped a cache entry and an obstacle record, and kept a
\* cache entry exactly as old as its lifetime
C15_Witness ==
    /\ last.op = "update"
    /\ ticks >= 3
    /\ \A p \in SpawnPoints : CacheKey(p[1], p[2]) \notin DOMAIN npc.box_check_cache
    /\ \E k \in DOMAIN npc.box_check_cache :
           npc.box_check_cache[k].age = box_check_cache_lifetime
    /\ \E c \in DOMAIN npc.inserted : c \notin DOMAIN npc.obstacle_memory

\* C16: the position history never holds more than max_history (15) entries;
\* a tick changes it only by clearing it (a teleport) or by appending the new
\* position, and an append to a full history drops exactly the oldest entry
\* and keeps the other fourteen in their order.
C16_HistoryBoundedFIFO ==
    LET h  == npc.position_history
        hb == last.history_before
    IN  /\ Len(h) <= max_history
        /\ last.op = "update" =>
               \/ h = hb
               \/ h = <<>>
               \/ last.teleports >= 1 /\ h = <<npc.pos>>
               \/ Len(hb) < max_history /\ h = Append(hb, npc.pos)
               \/ Len(hb) = max_history /\ h = Append(Tail(hb), npc.pos)

C16_Witness ==
    /\ last.op = "update"
    /\ Len(last.history_before) = max_history
    /\ npc.position_history # last.history_before
    /\ npc.position_history = Append(Tail(last.history_before), npc.pos)
    /\ Len(npc.position_history) = max_history

\* C17: in the state right after a teleport has been applied the velocity is
\* zero, walk_timer, state_timer and blocked_timer are all 0, the position
\* history and the path plan are empty with index 0, and the NPC stands at the
\* chosen position clamped to the 0.6 bounds.
C17_TeleportResets ==
    last.op = "fade" =>
        /\ npc.velocity = <<0, 0>>
        /\ npc.walk_timer = 0
        /\ npc.state_timer = 0
        /\ npc.blocked_timer = 0
        /\ npc.position_history = <<>>
        /\ npc.path_points = <<>>
        /\ npc.current_path_index = 0
        /\ npc.pos = npc.applied_pos
        /\ Abs(npc.pos[1]) <= SafeHalf(ROOM_HALF_W, 60)
        /\ Abs(npc.pos[2]) <= SafeHalf(ROOM_HALF_L, 60)

\* The hard clamp as update runs it at the start of a tick: on the state
\* Entity.update leaves, with the frame's tape.  HardClampCase(s0, r) says
\* what the claim says of the state s0 before and the state r after.
HardClampCase(s0, r) ==
    LET bound_w == SafeHalf(ROOM_HALF_W, 45)
        bound_l == SafeHalf(ROOM_HALF_L, 45)
        out_x == Abs(s0.pos[1]) > bound_w
        out_y == Abs(s0.pos[2]) > bound_l
        far   == \/ Abs(s0.pos[1]) * 10 > bound_w * 11
                 \/ Abs(s0.pos[2]) * 10 > bound_l * 11
    IN  IF ~(out_x \/ out_y)
        THEN /\ r.pos = s0.pos
             /\ r.velocity = s0.velocity
             /\ r.walk_timer = s0.walk_timer
             /\ r.teleports = s0.teleports
        ELSE /\ r.walk_timer <= 200
             /\ r.teleports = s0.teleports + (IF far THEN 1 ELSE 0)
             /\ r.applied = s0.applied + (IF far /\ r.fades = s0.fades THEN 1 ELSE 0)
             /\ r.applied = s0.applied =>
                    /\ r.pos = <<ClampTo(s0.pos[1], -bound_w, bound_w),
                                 ClampTo(s0.pos[2], -bound_l, bound_l)>>
                    /\ r.velocity[1] = IF out_x THEN MulDiv(s0.velocity[1], -5, 10)
                                       ELSE s0.velocity[1]
                    /\ r.velocity[2] = IF out_y THEN MulDiv(s0.velocity[2], -5, 10)
                                       ELSE s0.velocity[2]
                    /\ r.walk_timer = Min(s0.walk_timer, 200)

C19_PlanCap ==
    last.op \in {"plan", "chain"} => Len(npc.path_points) <= 5

\* C20: a plan built by the chaining branch (direct segment obstructed, at
\* least one candidate accepted) can be walked step by step: the traverser
\* reported the segment from the NPC to waypoint 0 and the segment between
\* every two consecutive waypoints unobstructed; the target is in the plan
\* only as its last waypoint, so nothing was chained after it; and a plan
\* that does not end in the target has no waypoint from which the target
\* was reported reachable.
C20_ChainedPlan ==
    (last.op = "chain" /\ last.direct = "blocked" /\ last.accepted >= 1) =>
        LET p == npc.path_points
            n == Len(p)
        IN  /\ n = last.accepted
            /\ _is_path_obstructed(last.scene, last.at, p[1]) = "clear"
            /\ \A i \in 1..(n - 1) :
                   /\ _is_path_obstructed(last.scene, p[i], p[i + 1]) = "clear"
                   /\ p[i] # player_pos
            /\ p[n] # player_pos =>
                   \A i \in 1..n :
                       _is_path_obstructed(last.scene, p[i], player_pos) # "clear"

\* a chained plan of three waypoints or more that ends in the target, made
\* while the traverser told the segments apart
C20_Witness ==
    /\ last.op = "chain"
    /\ last.direct = "blocked"
    /\ last.scene = "boxes"
    /\ last.accepted >= 3
    /\ Len(npc.path_points) = last.accepted
    /\ npc.path_points[Len(npc.path_points)] = player_pos
    /\ npc.path_points[1] # npc.path_points[2]

\* the test point of the k-th direction, NPC_RADIUS * 2 ahead of p
TestPoint(p, k) == VAdd(p, VScale(Directions[k], NPC_RADIUS * 2, 1000))

\* the k-th direction passes the three rejections of the loop, seen from
\* where the choice was made
Survives(k) ==
    LET test_pos == TestPoint(last.at, k)
    IN  /\ Abs(test_pos[1]) < SafeHalf(ROOM_HALF_W, 70)
        /\ Abs(test_pos[2]) < SafeHalf(ROOM_HALF_L, 70)
        /\ ~_inside_any_box(npc, test_pos[1], test_pos[2]).r
        /\ Cell(test_pos) \notin DOMAIN npc.obstacle_memory

\* C21: when direction selection picks one of the 8 directions, the picked
\* direction's test point lies inside the 70% bounds, is not reported inside
\* a box and its cell is not in the obstacle memory; the velocity has
\* magnitude NPC_SPEED (within the rounding of the unit vector); and unless
\* the draw is below 0.2 no survivor has a lower repulsion cost.
C21_PickedSurvivor ==
    (last.op = "choose" /\ ~last.all_rejected) =>
        \E k \in 1..Len(Directions) :
            /\ npc.velocity = VScale(Directions[k], NPC_SPEED, 1000)
            /\ Survives(k)
            /\ LengthSquared(npc.velocity) <= NPC_SPEED * NPC_SPEED
            /\ LengthSquared(npc.velocity) >= (NPC_SPEED - 1) * (NPC_SPEED - 1)
            /\ last.roll >= 200 =>
                   \A j \in 1..Len(Directions) :
                       Survives(j) =>
                           HistoryCost(npc.position_history, 1, TestPoint(last.at, k))
                             <= HistoryCost(npc.position_history, 1, TestPoint(last.at, j))

\* the cheapest survivor picked where the first survivor costs more and
\* some direction was rejected
C21_Witness ==
    /\ last.op = "choose"
    /\ ~last.all_rejected
    /\ last.roll >= 200
    /\ npc.position_history # <<>>
    /\ \E k \in 2..Len(Directions) :
           /\ npc.velocity = VScale(Directions[k], NPC_SPEED, 1000)
           /\ Survives(k)
           /\ Survives(1)
           /\ HistoryCost(npc.position_history, 1, TestPoint(last.at, k))
                  < HistoryCost(npc.position_history, 1, TestPoint(last.at, 1))

\* the index is within the plan, and a tick leaves a plan that is not empty
\* with a waypoint still to go
IndexInRange ==
    /\ 0 <= npc.current_path_index
    /\ npc.current_path_index <= Len(npc.path_points)
    /\ (last.op = "update" /\ npc.path_points # <<>>)
           => npc.current_path_index < Len(npc.path_points)

\* a step that raises the index is a tick begun in stalk; it raises the
\* index by one, to pass a waypoint that lies within 1.0 of where the NPC
\* stood when the hard clamp was done
IndexStep ==
    npc'.current_path_index > npc.current_path_index =>
        /\ last'.op = "update"
        /\ npc.behavior_state = "stalk"
        /\ npc'.current_path_index = npc.current_path_index + 1
        /\ \E rnd \in RandomTapes :
               LET at == _enforce_room_boundaries(EntityUpdate(npc), player_pos, rnd).pos
               IN  LengthSquared(VSub(npc'.path_points[npc'.current_path_index], at))
                       < 100 * 100

\* C22: in every reachable state 0 <= current_path_index <= the number of
\* waypoints; the index grows only by one per tick, only on a stalk tick
\* and only past a waypoint within 1.0 of the NPC; an index that runs off the
\* end has the plan recomputed in the same tick, so that after every tick a
\* plan that is not empty has current_path_index below its length.
C22_IndexValid == [](IndexInRange) /\ [][IndexStep]_vars

\* a stalk tick that passed the first waypoint of a plan of two
C22_Witness ==
    /\ last.op = "update"
    /\ last.from = "stalk"
    /\ last.index_before = 0
    /\ npc.current_path_index = 1
    /\ Len(npc.path_points) = 2

\* C23: a tick whose wander update ends with the NPC nearer than
\* NPC_SAFE_DISTANCE to the player has called for a teleport.  Where no
\* teleport was applied during the tick the NPC still stands where the wander
\* update left it; where one was applied it was called for.
C23_WanderTooClose ==
    (/\ last.op = "update"
     /\ last.from = "wander"
     /\ ~last.aborted
     /\ env.has_player
     /\ last.applied = 0
     /\ LengthSquared(VSub(npc.pos, player_pos)) < Sq(NPC_SAFE_DISTANCE))
        => last.teleports >= 1

\* a wander tick that ended too close and left its teleport to the fade
C23_Witness ==
    /\ last.op = "update"
    /\ last.from = "wander"
    /\ ~last.aborted
    /\ env.has_player
    /\ last.applied = 0
    /\ LengthSquared(VSub(npc.pos, player_pos)) < Sq(NPC_SAFE_DISTANCE)
    /\ last.teleports = 1
    /\ Len(npc.fades) = 1

\* C24: right after a transition into stalk walk_timer lies in
\* [0.7 * 1.5, 0.7 * 3.0] s, and right after a transition into flee in
\* [0.4 * 1.5, 0.4 * 3.0] s, whatever it was before.
C24_TimerScaling ==
    (last.op = "update" /\ last.reached_check /\ npc.behavior_state # last.check_state) =>
        /\ npc.behavior_state = "stalk" =>
               /\ (NPC_WALK_MIN * 7) \div 10 <= npc.walk_timer
               /\ npc.walk_timer <= (NPC_WALK_MAX * 7) \div 10
        /\ npc.behavior_state = "flee" =>
               /\ (NPC_WALK_MIN * 4) \div 10 <= npc.walk_timer
               /\ npc.walk_timer <= (NPC_WALK_MAX * 4) \div 10

\* C25: at most one teleport is in flight: while a teleport waits behind its
\* fade-out, no tick and no notification schedules another.
C25_OneInFlight == Len(npc.fades) <= 1

\* C26: nothing touches the agent after cleanup: no teleport scheduled
\* before cleanup() is applied once the node path is gone, and a later
\* on_player_teleported publication does not invoke the handler.
C26_NothingAfterCleanup ==
    ~npc.node_path => last.op \notin {"fade", "teleported"}

\* C27: a teleport never causes the next one: every teleport destination
\* lies within 1.1 times the 45% extents, so the hard clamp of the tick
\* that follows finds no extreme violation there.
C27_TeleportLandsInside ==
    last.applied >= 1
        => /\ Abs(npc.applied_pos[1]) <= (SafeHalf(ROOM_HALF_W, 45) * 11) \div 10
           /\ Abs(npc.applied_pos[2]) <= (SafeHalf(ROOM_HALF_L, 45) * 11) \div 10

\* points to put the question at: two of one 0.5 bucket on either side of
\* the crate's inflated edge (x = 1.1), one deep inside, one far away
QueryPoints == { <<100, 0>>, <<120, 0>>, <<300, 0>>, <<-600, 0>> }

\* C28: the obstacle cache is transparent: whatever the cache holds,
\* _inside_any_box(x, y) answers what the scan of the footprints answers at
\* exactly (x, y).
C28_CacheTransparent ==
    \A p \in QueryPoints :
        _inside_any_box(npc, p[1], p[2]).r = BoxScan(env.static_objects, p[1], p[2])

\* C29: stuck detection can arm under the real tick size: with dt at most
\* 0.1 s the position history still receives entries as the agent moves, so
\* an agent more than 0.75 units from where it was last placed has one.
C29_HistoryFollows ==
    Dist(npc.pos, npc.applied_pos) > 75 => npc.position_history # <<>>

\* C30: the assembled NPC has a target: in the scene load_phase1_scene
\* builds, every tick that runs to its end calls the transition check, and
\* the check finds a player to measure against.
C30_CheckEvaluated ==
    (last.op = "update" /\ ~last.aborted) => (last.reached_check /\ env.has_player)

====
